---- MODULE Spec2Model ----
(***************************************************************************)
(* The scanner components of dsl/scanners.go: ScanChars, ScanKeyword and   *)
(* ScanComment.  Each is one goroutine running Process(): it receives one  *)
(* value from Set, one from Type, and then ranges over In, sending every   *)
(* token on Hit or on Miss.                                                *)
(*                                                                         *)
(* Strings are sequences of byte values (all below 128, so that a byte, a  *)
(* rune and its UTF-8 encoding coincide).  Token positions are 0-based as  *)
(* in the Go code; sequences are 1-based, so Data[i] is data[i + 1].       *)
(***************************************************************************)
EXTENDS Integers, Sequences, FiniteSets, TLC

\* ------------------------------------------------------------------ bounds

\* longest source buffer of the function specifications
MaxLen == 3
\* tokens the upstream producer sends on In in the protocol specification
MaxTokens == 2
\* values the network offers on each of Set and Type in the protocol specification
MaxCfg == 2

\* ------------------------------------------------------- bytes of the source

NUL == 0
TAB == 9
LF == 10
CR == 13
Backslash == 92
LBracket == 91
RBracket == 93
Dash == 45

\* one-character strings of the inputs, by byte value
Ord ==
  (" " :> 32) @@ ("#" :> 35) @@ ("=" :> 61) @@ ("A" :> 65) @@ ("a" :> 97)
  @@ ("r" :> 114) @@ ("n" :> 110) @@ ("t" :> 116) @@ ("b" :> 98) @@ ("x" :> 120)

\* strings.ToUpper on one ASCII byte
UpperByte(b) == IF b \in 97..122 THEN b - 32 ELSE b

\* strings.ToUpper
RECURSIVE ToUpper(_)
ToUpper(s) == IF Len(s) = 0 THEN <<>> ELSE <<UpperByte(s[1])>> \o ToUpper(Tail(s))

\* the class \w of Go's regexp: [0-9A-Za-z_]
IsWord(b) == b \in (48..57) \cup (65..90) \cup (97..122) \cup {95}

\* the class \s of Go's regexp: [\t\n\f\r ]
IsSpace(b) == b \in {TAB, LF, 12, CR, 32}

\* strings.ReplaceAll(s, <<Backslash, c>>, <<to>>): left to right, not overlapping
RECURSIVE ReplaceEscape(_, _, _)
ReplaceEscape(s, c, to) ==
  IF Len(s) = 0 THEN <<>>
  ELSE IF Len(s) >= 2 /\ s[1] = Backslash /\ s[2] = c
       THEN <<to>> \o ReplaceEscape(SubSeq(s, 3, Len(s)), c, to)
       ELSE <<s[1]>> \o ReplaceEscape(Tail(s), c, to)

\* the bytes of a string
Chars(s) == {s[i] : i \in 1..Len(s)}

\* ---------------------------------------------------- ScanChars.matcher

\* regexp.Compile of a bracket class whose items are single characters and
\* ranges lo-hi: err is set for a range with lo > hi (invalid character class
\* range), otherwise set holds the bytes the class matches
RECURSIVE ClassItems(_)
ClassItems(body) ==
  IF Len(body) = 0 THEN [err |-> FALSE, set |-> {}]
  ELSE IF Len(body) >= 3 /\ body[2] = Dash
       THEN LET rest == ClassItems(SubSeq(body, 4, Len(body)))
            IN [err |-> rest.err \/ body[1] > body[3],
                set |-> (body[1]..body[3]) \cup rest.set]
       ELSE LET rest == ClassItems(Tail(body))
            IN [err |-> rest.err, set |-> {body[1]} \cup rest.set]

\* regexp.Compile(set) for a set that starts with [ and ends with ]; a class
\* with nothing between the brackets has no closing bracket and is an error
Compile(set) ==
  LET body == SubSeq(set, 2, Len(set) - 1)
  IN IF Len(body) = 0 THEN [err |-> TRUE, set |-> {}] ELSE ClassItems(body)

\* a matcher that forgets the escape of the tab
ExpandEscapesNoTab(set) ==
  ReplaceEscape(ReplaceEscape(set, Ord["r"], CR), Ord["n"], LF)

\* the literal set after the three ReplaceAll calls
ExpandEscapes(set) ==
  ReplaceEscape(ReplaceEscape(ReplaceEscape(set, Ord["t"], TAB), Ord["r"], CR),
                Ord["n"], LF)

\* a fallback closure that accepts every byte
FailedMatcherAcceptsAll == 0..127

\* what matcher returns on a regexp that does not compile: func(r) { return false }
FailedMatcher == {}

\* s.matcher(set): the set of bytes r for which the returned closure is true.
\* Called with a non-empty set (set[0] panics on the empty string).
Matcher(set) ==
  IF set[1] = LBracket /\ set[Len(set)] = RBracket
  THEN IF Compile(set).err THEN FailedMatcher ELSE Compile(set).set
  ELSE Chars(ExpandEscapes(set))

\* ------------------------------------------------- ScanChars: one token

\* a scan that stops after the first accepted character
CharsRunOne(d, i, m) ==
  IF i >= Len(d) THEN <<>>
  ELSE IF d[i + 1] = NUL \/ d[i + 1] \notin m THEN <<>>
       ELSE <<d[i + 1]>>

\* the inner loop: the bytes written to buf, reading Data from index i (0-based)
RECURSIVE CharsRun(_, _, _)
CharsRun(d, i, m) ==
  IF i >= Len(d) THEN <<>>
  ELSE IF d[i + 1] = NUL \/ d[i + 1] \notin m THEN <<>>
       ELSE <<d[i + 1]>> \o CharsRun(d, i + 1, m)

\* a loop body that stamps the label only on a token that arrives without type
CharsStepKeepType(t, m, label) ==
  LET run == CharsRun(t.file, t.pos, m)
      t1 == [t EXCEPT !.value = run]
  IN IF Len(run) > 0
     THEN [out |-> "Hit",
           tok |-> [t1 EXCEPT !.type = IF t.type = "" THEN label ELSE t.type]]
     ELSE [out |-> "Miss", tok |-> t1]

\* the body of the range loop of ScanChars.Process
CharsStep(t, m, label) ==
  LET run == CharsRun(t.file, t.pos, m)
      t1 == [t EXCEPT !.value = run]
  IN IF Len(run) > 0
     THEN [out |-> "Hit", tok |-> [t1 EXCEPT !.type = label]]
     ELSE [out |-> "Miss", tok |-> t1]

\* ----------------------------------------------- ScanKeyword: one token

\* identReg.MatchString(word): the unanchored [\w_] finds a word character
IsIdent(word) == \E i \in 1..Len(word) : IsWord(word[i])

\* the regexp the code keeps in shouldNotBeFollowedBy
FollowReg(word) == IF IsIdent(word) THEN "ident" ELSE "symbol"

\* shouldNotBeFollowedBy.Match([]byte{nextChar})
FollowMatch(reg, b) ==
  IF reg = "ident" THEN IsWord(b) ELSE ~IsWord(b) /\ ~IsSpace(b)

\* what the code sends on Miss after a failed boundary check or comparison
KeywordMissTok(t, v) == [t EXCEPT !.value = v]

\* a loop body without the length check: the slice Data[Pos : Pos+wordLen]
\* panics when the data is too short
KeywordStepNoLenCheck(t, word, label, reg) ==
  LET dataLen == Len(t.file)
      wordLen == Len(word)
  IN IF t.pos + wordLen > dataLen
     THEN [out |-> "panic", tok |-> t]
     ELSE LET v == SubSeq(t.file, t.pos + 1, t.pos + wordLen)
          IN IF ToUpper(v) = word
             THEN IF t.pos + wordLen < dataLen
                     /\ FollowMatch(reg, t.file[t.pos + wordLen + 1])
                  THEN [out |-> "Miss", tok |-> KeywordMissTok(t, v)]
                  ELSE [out |-> "Hit",
                        tok |-> [t EXCEPT !.type = label, !.value = word]]
             ELSE [out |-> "Miss", tok |-> KeywordMissTok(t, v)]

\* the body of the range loop of ScanKeyword.Process
KeywordStep(t, word, label, reg) ==
  LET dataLen == Len(t.file)
      wordLen == Len(word)
  IN IF t.pos + wordLen > dataLen
     THEN [out |-> "Miss", tok |-> t]
     ELSE LET v == SubSeq(t.file, t.pos + 1, t.pos + wordLen)
          IN IF ToUpper(v) = word
             THEN IF t.pos + wordLen < dataLen
                     /\ FollowMatch(reg, t.file[t.pos + wordLen + 1])
                  THEN [out |-> "Miss", tok |-> KeywordMissTok(t, v)]
                  ELSE [out |-> "Hit",
                        tok |-> [t EXCEPT !.type = label, !.value = word]]
             ELSE [out |-> "Miss", tok |-> KeywordMissTok(t, v)]

\* ----------------------------------------------- ScanComment: one token

\* a scan that runs through carriage returns
IsLineEndNoCR(b) == b = NUL \/ b = LF

\* the bytes that end a comment
IsLineEnd(b) == b = NUL \/ b = LF \/ b = CR

\* the inner loop: the bytes written to buf, reading Data from index i (0-based)
RECURSIVE CommentRun(_, _)
CommentRun(d, i) ==
  IF i >= Len(d) THEN <<>>
  ELSE IF IsLineEnd(d[i + 1]) THEN <<>>
       ELSE <<d[i + 1]>> \o CommentRun(d, i + 1)

\* the body of the range loop of ScanComment.Process; Data[Pos] and prefix[0]
\* are index expressions, which panic out of range
CommentStep(t, prefix, label) ==
  IF t.pos >= Len(t.file) \/ Len(prefix) = 0
  THEN [out |-> "panic", tok |-> t]
  ELSE IF t.file[t.pos + 1] # prefix[1]
       THEN [out |-> "Miss", tok |-> t]
       ELSE [out |-> "Hit",
             tok |-> [t EXCEPT !.value = CommentRun(t.file, t.pos),
                               !.type = label]]

\* ------------------------------------------------------------- the state

VARIABLES
  kind,       \* which component runs: "ScanChars", "ScanKeyword" or "ScanComment"
  data,       \* tok.File.Data, the source buffer every token refers to
  budget,     \* what the network will send: [cfg, tok], values per
              \* configuration channel and tokens on In
  setCh,      \* the Set channel: [buf, closed, sent]
  typeCh,     \* the Type channel: [buf, closed, sent]
  inCh,       \* the In channel: [buf, closed, sent]
  pc,         \* where Process stands
  pattern,    \* the local set (ScanChars), word (ScanKeyword) or prefix (ScanComment)
  matcher,    \* ScanChars: the closure matcher(set) returned, as the bytes it accepts
  follow,     \* ScanKeyword: shouldNotBeFollowedBy
  tokenType,  \* the local tokenType
  tok,        \* the loop variable tok, while Process holds a token
  hitOut,     \* the tokens sent on Hit, in order
  missOut,    \* the tokens sent on Miss, in order
  sendLog,    \* the sends on Hit and Miss together, in order: [out, tok]
  received,   \* the tokens received from In, in order, as they arrived
  setLog,     \* the results of the receives from Set: [ok, v]
  typeLog,    \* the results of the receives from Type: [ok, v]
  stage,      \* a cascade's matchers in chain order: configuration, pc and tok
  link,       \* a cascade's channels: link[i] is the In of matcher i
  sink        \* what left a cascade: [hit, miss], hit per matcher

vars == <<kind, data, budget, setCh, typeCh, inCh, pc, pattern, matcher, follow,
          tokenType, tok, hitOut, missOut, sendLog, received, setLog, typeLog,
          stage, link, sink>>

cfgVars == <<pattern, matcher, follow, tokenType>>
outVars == <<hitOut, missOut, sendLog>>
cascadeVars == <<stage, link, sink>>

\* what no step of a single component changes
envVars == <<kind, data, budget, cascadeVars>>

Kinds == {"ScanChars", "ScanKeyword", "ScanComment"}

\* the zero value of Token when Process holds none
NoToken == [file |-> <<>>, pos |-> 0, value |-> <<>>, type |-> ""]

\* a channel nobody has sent on yet
EmptyChan == [buf |-> <<>>, closed |-> FALSE, sent |-> 0]

\* ---------------------------------------------------------------- inputs

\* the sequences over S of length at most n
SeqsUpTo(S, n) == UNION {[1..k -> S] : k \in 0..n}

\* the bytes the buffers of a component are made of
Alphabet(k) ==
  CASE k = "ScanChars" -> {NUL, TAB, Ord[" "], Ord["a"], Ord["t"]}
    [] k = "ScanKeyword" -> {NUL, Ord[" "], Ord["="], Ord["A"], Ord["a"]}
    [] k = "ScanComment" -> {NUL, LF, CR, Ord["#"], Ord["a"]}

\* the strings the network may send on Set
SetValues(k) ==
  CASE k = "ScanChars" ->
         { <<>>,
           <<Ord[" "], Backslash, Ord["t"]>>,
           <<Ord["a"], NUL>>,
           <<Backslash, Ord["n"], Backslash, Backslash, Ord["t"]>>,
           <<LBracket, Ord["a"], Dash, Ord["t"], RBracket>>,
           <<LBracket, Ord["t"], Dash, Ord["a"], RBracket>> }
    [] k = "ScanKeyword" ->
         { <<>>, <<Ord["a"]>>, <<Ord["="]>>, <<Ord["a"], Ord["="]>> }
    [] k = "ScanComment" ->
         { <<>>, <<Ord["#"]>>, <<Ord["a"], Ord["#"]>>, <<LF>> }

\* the labels the network may send on Type
TypeValues == {"T1", "T2"}

\* the buffers of the protocol specification
SampleBuffers(k) ==
  CASE k = "ScanChars" -> { <<Ord[" "], Ord["a"], Ord["t"]>> }
    [] k = "ScanKeyword" -> { <<Ord["A"], Ord["="], Ord["="]>> }
    [] k = "ScanComment" -> { <<Ord["a"], Ord["#"], LF>> }

\* value and type a token carries on arrival: empty, or left by an earlier stage
ArrivalForms ==
  { [value |-> <<>>, type |-> ""], [value |-> <<Ord["x"]>>, type |-> "OLD"] }

\* the tokens the producer may send: 0 <= Pos <= len(Data)
Tokens ==
  { [file |-> data, pos |-> p, value |-> f.value, type |-> f.type] :
      p \in 0..Len(data), f \in ArrivalForms }

\* -------------------------------------------------------------- the start

InitWith(k, d, c, n) ==
  /\ kind = k
  /\ data = d
  /\ budget = [cfg |-> c, tok |-> n]
  /\ setCh = EmptyChan
  /\ typeCh = EmptyChan
  /\ inCh = EmptyChan
  /\ pc = "readSet"
  /\ pattern = <<>>
  /\ matcher = {}
  /\ follow = "none"
  /\ tokenType = ""
  /\ tok = NoToken
  /\ hitOut = <<>>
  /\ missOut = <<>>
  /\ sendLog = <<>>
  /\ received = <<>>
  /\ setLog = <<>>
  /\ typeLog = <<>>
  /\ stage = <<>>
  /\ link = <<>>
  /\ sink = [hit |-> <<>>, miss |-> <<>>]

Init == \E k \in Kinds : \E d \in SampleBuffers(k) : InitWith(k, d, MaxCfg, MaxTokens)

\* a function specification classifies one token under one configuration: the
\* network sends one value on Set, one on Type and one token on In
OneShot == [cfg |-> 1, tok |-> 1]

\* one component on every buffer up to MaxLen
InitFn(k) ==
  \E d \in SeqsUpTo(Alphabet(k), MaxLen) : InitWith(k, d, OneShot.cfg, OneShot.tok)

InitChars == InitFn("ScanChars")
InitKeyword == InitFn("ScanKeyword")
InitComment == InitFn("ScanComment")

\* ------------------------------------------------- the network's actions

\* a send on a channel of capacity one
ChanSend(ch, v) == [ch EXCEPT !.buf = Append(@, v), !.sent = @ + 1]
CanSend(ch) == ~ch.closed /\ Len(ch.buf) = 0

SendSet ==
  /\ CanSend(setCh) /\ setCh.sent < budget.cfg
  /\ \E v \in SetValues(kind) : setCh' = ChanSend(setCh, v)
  /\ UNCHANGED <<envVars, typeCh, inCh, pc, cfgVars, tok, outVars, received, setLog, typeLog>>

CloseSet ==
  /\ ~setCh.closed
  /\ setCh' = [setCh EXCEPT !.closed = TRUE]
  /\ UNCHANGED <<envVars, typeCh, inCh, pc, cfgVars, tok, outVars, received, setLog, typeLog>>

SendType ==
  /\ CanSend(typeCh) /\ typeCh.sent < budget.cfg
  /\ \E v \in TypeValues : typeCh' = ChanSend(typeCh, v)
  /\ UNCHANGED <<envVars, setCh, inCh, pc, cfgVars, tok, outVars, received, setLog, typeLog>>

CloseType ==
  /\ ~typeCh.closed
  /\ typeCh' = [typeCh EXCEPT !.closed = TRUE]
  /\ UNCHANGED <<envVars, setCh, inCh, pc, cfgVars, tok, outVars, received, setLog, typeLog>>

SendIn ==
  /\ CanSend(inCh) /\ inCh.sent < budget.tok
  /\ \E t \in Tokens : inCh' = ChanSend(inCh, t)
  /\ UNCHANGED <<envVars, setCh, typeCh, pc, cfgVars, tok, outVars, received, setLog, typeLog>>

CloseIn ==
  /\ ~inCh.closed
  /\ inCh' = [inCh EXCEPT !.closed = TRUE]
  /\ UNCHANGED <<envVars, setCh, typeCh, pc, cfgVars, tok, outVars, received, setLog, typeLog>>

\* ------------------------------------------------------------- Process

\* v, ok = <-ch can proceed: a value is buffered, or the channel is closed
CanRecv(ch) == Len(ch.buf) > 0 \/ ch.closed

\* the result of v, ok = <-ch
RecvResult(ch) ==
  IF Len(ch.buf) > 0 THEN [ok |-> TRUE, v |-> Head(ch.buf)]
  ELSE [ok |-> FALSE, v |-> <<>>]

\* the channel after the receive
AfterRecv(ch) == IF Len(ch.buf) > 0 THEN [ch EXCEPT !.buf = Tail(@)] ELSE ch

\* a Process that forgets the return and goes on to the range loop
OnConfigClosedNoReturn == "recv"

\* where Process goes when a configuration receive reports !ok: return
OnConfigClosed == "done"

\* a Process that forgets the receive from Type
PcAfterSetSkipType == "recv"

\* where Process goes after set, ok = <-s.Set reports ok: the receive from Type
PcAfterSet == "readType"

\* if set, ok = <-s.Set; !ok { return }, and what follows up to the receive
\* from Type: matcher(set) in ScanChars, ToUpper in ScanKeyword
RecvSet ==
  /\ pc = "readSet"
  /\ CanRecv(setCh)
  /\ LET r == RecvResult(setCh)
     IN /\ setCh' = AfterRecv(setCh)
        /\ setLog' = Append(setLog, [ok |-> r.ok, v |-> r.v])
        /\ IF ~r.ok
           THEN /\ pc' = OnConfigClosed
                /\ UNCHANGED cfgVars
           ELSE CASE kind = "ScanChars" ->
                       IF Len(r.v) = 0
                       THEN /\ pc' = "panic"
                            /\ pattern' = r.v
                            /\ UNCHANGED <<matcher, follow, tokenType>>
                       ELSE /\ pc' = PcAfterSet
                            /\ pattern' = r.v
                            /\ matcher' = Matcher(r.v)
                            /\ UNCHANGED <<follow, tokenType>>
                  [] kind = "ScanKeyword" ->
                       /\ pc' = PcAfterSet
                       /\ pattern' = ToUpper(r.v)
                       /\ UNCHANGED <<matcher, follow, tokenType>>
                  [] kind = "ScanComment" ->
                       /\ pc' = PcAfterSet
                       /\ pattern' = r.v
                       /\ UNCHANGED <<matcher, follow, tokenType>>
  /\ UNCHANGED <<envVars, typeCh, inCh, tok, outVars, received, typeLog>>

\* if tokenType, ok = <-s.Type; !ok { return }, and what follows up to the
\* range loop: the regexps of ScanKeyword
RecvType ==
  /\ pc = "readType"
  /\ CanRecv(typeCh)
  /\ LET r == RecvResult(typeCh)
     IN /\ typeCh' = AfterRecv(typeCh)
        /\ typeLog' = Append(typeLog, [ok |-> r.ok, v |-> r.v])
        /\ IF ~r.ok
           THEN /\ pc' = OnConfigClosed
                /\ UNCHANGED cfgVars
           ELSE /\ pc' = "recv"
                /\ tokenType' = r.v
                /\ follow' = IF kind = "ScanKeyword" THEN FollowReg(pattern) ELSE follow
                /\ UNCHANGED <<pattern, matcher>>
  /\ UNCHANGED <<envVars, setCh, inCh, tok, outVars, received, setLog>>

\* the body of the range loop, up to its send
Classify(t) ==
  CASE kind = "ScanChars" -> CharsStep(t, matcher, tokenType)
    [] kind = "ScanKeyword" -> KeywordStep(t, pattern, tokenType, follow)
    [] kind = "ScanComment" -> CommentStep(t, pattern, tokenType)

\* a loop body that forgets its send on Miss and takes the next token
SendPcDropMiss(out) ==
  CASE out = "Hit" -> "sendHit"
    [] out = "Miss" -> "recv"
    [] out = "panic" -> "panic"

\* where Process blocks after classifying a token
SendPc(out) ==
  CASE out = "Hit" -> "sendHit"
    [] out = "Miss" -> "sendMiss"
    [] out = "panic" -> "panic"

\* a loop that does not end when In is closed and drained
OnInClosedKeepsWaiting == "recv"

\* where Process goes when In is closed and drained: the range loop ends and
\* Process returns
OnInClosed == "done"

\* for tok := range s.In: the next token and the loop body up to the send,
\* or the end of the loop when In is closed and drained
RecvIn ==
  /\ pc = "recv"
  /\ CanRecv(inCh)
  /\ IF Len(inCh.buf) > 0
     THEN LET t == Head(inCh.buf)
              c == Classify(t)
          IN /\ inCh' = AfterRecv(inCh)
             /\ received' = Append(received, t)
             /\ tok' = c.tok
             /\ pc' = SendPc(c.out)
     ELSE /\ pc' = OnInClosed
          /\ UNCHANGED <<inCh, received, tok>>
  /\ UNCHANGED <<envVars, setCh, typeCh, cfgVars, outVars, setLog, typeLog>>

\* a send that delivers the first token of the run instead of the current one
SentTokenFirst == received[1]

\* a send that moves the token's position past the text it matched
SentTokenAdvanced == [tok EXCEPT !.pos = @ + Len(tok.value)]

\* the token a send delivers: the loop variable tok
SentToken == tok

\* s.Hit <- tok completes
SendHit ==
  /\ pc = "sendHit"
  /\ hitOut' = Append(hitOut, SentToken)
  /\ sendLog' = Append(sendLog, [out |-> "Hit", tok |-> SentToken])
  /\ tok' = NoToken
  /\ pc' = "recv"
  /\ UNCHANGED <<envVars, setCh, typeCh, inCh, cfgVars, missOut, received, setLog, typeLog>>

\* s.Miss <- tok completes
SendMiss ==
  /\ pc = "sendMiss"
  /\ missOut' = Append(missOut, SentToken)
  /\ sendLog' = Append(sendLog, [out |-> "Miss", tok |-> SentToken])
  /\ tok' = NoToken
  /\ pc' = "recv"
  /\ UNCHANGED <<envVars, setCh, typeCh, inCh, cfgVars, hitOut, received, setLog, typeLog>>

Network == SendSet \/ CloseSet \/ SendType \/ CloseType \/ SendIn \/ CloseIn

Process == RecvSet \/ RecvType \/ RecvIn \/ SendHit \/ SendMiss

Next ==
  \/ SendSet
  \/ CloseSet
  \/ SendType
  \/ CloseType
  \/ SendIn
  \/ CloseIn
  \/ RecvSet
  \/ RecvType
  \/ RecvIn
  \/ SendHit
  \/ SendMiss

\* the protocol specification: a few buffers, several tokens
Spec == Init /\ [][Next]_vars

\* the steps Process takes by itself once its receive can proceed: the Go
\* scheduler runs a goroutine that is not blocked
Scheduled == RecvSet \/ RecvType \/ RecvIn

\* the configuration handshake followed by one token
InitHandshake ==
  \E k \in Kinds : \E d \in SampleBuffers(k) : InitWith(k, d, MaxCfg, OneShot.tok)

\* the sends of Process complete: the consumers of Hit and Miss accept them
Accepted == SendHit \/ SendMiss

\* the handshake and one token under a fair scheduler, with consumers that
\* accept every pending send
SpecStream ==
  InitHandshake /\ [][Next]_vars /\ WF_vars(Scheduled) /\ WF_vars(Accepted)

\* the handshake under a fair scheduler
SpecFair == InitHandshake /\ [][Next]_vars /\ WF_vars(Scheduled)

\* the function specifications: one component, every buffer up to MaxLen
SpecChars == InitChars /\ [][Next]_vars
SpecKeyword == InitKeyword /\ [][Next]_vars
SpecComment == InitComment /\ [][Next]_vars

\* ------------------------------------------------------------ a cascade

\* a matcher after its two configuration receives, at the top of its loop
ConfiguredStage(k, set, label) ==
  [kind |-> k,
   pattern |-> IF k = "ScanKeyword" THEN ToUpper(set) ELSE set,
   matcher |-> IF k = "ScanChars" THEN Matcher(set) ELSE {},
   follow |-> IF k = "ScanKeyword" THEN FollowReg(ToUpper(set)) ELSE "none",
   tokenType |-> label,
   pc |-> "recv",
   tok |-> NoToken]

\* the chains the supervisor wires: the Miss of each matcher is the In of the
\* next
CascadeChains ==
  { << ConfiguredStage("ScanChars", <<Ord[" "], Backslash, Ord["t"]>>, "T1"),
       ConfiguredStage("ScanKeyword", <<Ord["="]>>, "T2") >>,
    << ConfiguredStage("ScanKeyword", <<Ord["="]>>, "T1"),
       ConfiguredStage("ScanComment", <<Ord["#"]>>, "T2") >>,
    << ConfiguredStage("ScanComment", <<Ord["#"]>>, "T1"),
       ConfiguredStage("ScanChars",
                       <<LBracket, Ord["a"], Dash, Ord["t"], RBracket>>, "T2") >> }

\* the buffers of the cascade
CascadeBuffers ==
  { <<Ord[" "], Ord["a"], Ord["="]>>, <<Ord["="], Ord["#"], Ord["a"]>> }

\* a fresh token entering the cascade; id numbers the tokens in entry order
EntryToken(p, n) ==
  [file |-> data, pos |-> p, value |-> <<>>, type |-> "", id |-> n]

InitCascade ==
  /\ kind = "Cascade"
  /\ data \in CascadeBuffers
  /\ budget = [cfg |-> 0, tok |-> MaxTokens]
  /\ setCh = EmptyChan
  /\ typeCh = EmptyChan
  /\ inCh = EmptyChan
  /\ pc = "done"
  /\ pattern = <<>>
  /\ matcher = {}
  /\ follow = "none"
  /\ tokenType = ""
  /\ tok = NoToken
  /\ hitOut = <<>>
  /\ missOut = <<>>
  /\ sendLog = <<>>
  /\ received = <<>>
  /\ setLog = <<>>
  /\ typeLog = <<>>
  /\ stage \in CascadeChains
  /\ link = [i \in 1..Len(stage) |-> EmptyChan]
  /\ sink = [hit |-> [i \in 1..Len(stage) |-> <<>>], miss |-> <<>>]

componentVars ==
  <<kind, data, budget, setCh, typeCh, inCh, pc, cfgVars, tok, outVars,
    received, setLog, typeLog>>

\* the producer sends a token on the In of the first matcher
CascadeEnter ==
  /\ CanSend(link[1]) /\ link[1].sent < budget.tok
  /\ \E p \in 0..Len(data) :
       link' = [link EXCEPT ![1] = ChanSend(@, EntryToken(p, link[1].sent + 1))]
  /\ UNCHANGED <<componentVars, stage, sink>>

\* the producer closes the In of the first matcher
CascadeClose ==
  /\ ~link[1].closed
  /\ link' = [link EXCEPT ![1].closed = TRUE]
  /\ UNCHANGED <<componentVars, stage, sink>>

\* the body of the range loop of one matcher of the chain, up to its send
StageClassify(s, t) ==
  CASE s.kind = "ScanChars" -> CharsStep(t, s.matcher, s.tokenType)
    [] s.kind = "ScanKeyword" -> KeywordStep(t, s.pattern, s.tokenType, s.follow)
    [] s.kind = "ScanComment" -> CommentStep(t, s.pattern, s.tokenType)

\* for tok := range s.In in matcher i
StageRecv(i) ==
  /\ stage[i].pc = "recv"
  /\ CanRecv(link[i])
  /\ IF Len(link[i].buf) > 0
     THEN LET c == StageClassify(stage[i], Head(link[i].buf))
          IN /\ link' = [link EXCEPT ![i] = AfterRecv(@)]
             /\ stage' = [stage EXCEPT ![i].tok = c.tok, ![i].pc = SendPc(c.out)]
     ELSE /\ stage' = [stage EXCEPT ![i].pc = OnInClosed]
          /\ UNCHANGED link
  /\ UNCHANGED <<componentVars, sink>>

\* s.Hit <- tok completes in matcher i: the token leaves the cascade
StageSendHit(i) ==
  /\ stage[i].pc = "sendHit"
  /\ sink' = [sink EXCEPT !.hit[i] = Append(@, stage[i].tok)]
  /\ stage' = [stage EXCEPT ![i].tok = NoToken, ![i].pc = "recv"]
  /\ UNCHANGED <<componentVars, link>>

\* s.Miss <- tok completes in matcher i: the token goes to the next matcher,
\* or leaves the cascade after the last
StageSendMiss(i) ==
  /\ stage[i].pc = "sendMiss"
  /\ IF i < Len(stage)
     THEN /\ CanSend(link[i + 1])
          /\ link' = [link EXCEPT ![i + 1] = ChanSend(@, stage[i].tok)]
          /\ UNCHANGED sink
     ELSE /\ sink' = [sink EXCEPT !.miss = Append(@, stage[i].tok)]
          /\ UNCHANGED link
  /\ stage' = [stage EXCEPT ![i].tok = NoToken, ![i].pc = "recv"]
  /\ UNCHANGED componentVars

CascadeNext ==
  \/ CascadeEnter
  \/ CascadeClose
  \/ \E i \in 1..Len(stage) : StageRecv(i)
  \/ \E i \in 1..Len(stage) : StageSendHit(i)
  \/ \E i \in 1..Len(stage) : StageSendMiss(i)

\* two matchers chained Miss to In, under any interleaving
SpecCascade == InitCascade /\ [][CascadeNext]_vars

\* ------------------------------------------------------------ the claims

\* Process holds a received token it has not sent yet (it is classified and
\* waits in its send, or Process aborted on it)
Holding == pc \in {"sendHit", "sendMiss", "panic"} /\ Len(received) > 0

\* the channel was closed and no value was ever sent on it
ClosedBeforeValue(ch) == ch.closed /\ ch.sent = 0

\* both configuration receives delivered a value
Configured ==
  /\ Len(setLog) = 1 /\ setLog[1].ok
  /\ Len(typeLog) = 1 /\ typeLog[1].ok

\* the token Process received last, as it arrived
LastReceived == received[Len(received)]

C2_NoConfigNoTokens ==
  (ClosedBeforeValue(setCh) \/ ClosedBeforeValue(typeCh)) =>
    /\ received = <<>>
    /\ hitOut = <<>>
    /\ missOut = <<>>
    /\ pc \notin {"recv", "sendHit", "sendMiss"}

\* Type was closed with nothing sent, Process has returned, a token still waits
C2_Witness ==
  /\ ClosedBeforeValue(typeCh)
  /\ Len(setLog) = 1 /\ setLog[1].ok
  /\ Len(typeLog) = 1 /\ ~typeLog[1].ok
  /\ pc = "done"
  /\ Len(inCh.buf) > 0

\* Process is blocked: it waits in a receive that cannot proceed
Waiting ==
  \/ pc = "readSet" /\ ~CanRecv(setCh)
  \/ pc = "readType" /\ ~CanRecv(typeCh)
  \/ pc = "recv" /\ ~CanRecv(inCh)

\* C3 as stated: once either configuration channel is closed before a value
\* arrived on it, Process has returned or is on its way to return, waiting on
\* nothing, whatever the state of the other channel.
C3_ReturnsWhicheverClosed ==
  (ClosedBeforeValue(setCh) \/ ClosedBeforeValue(typeCh)) =>
    pc = "done" \/ (pc \in {"readSet", "readType"} /\ ~Waiting)

\* C3 as amended: Process returns once Set is closed before a value arrived;
\* it returns on Type closed before a value arrived once its receive from Set
\* has delivered a value and it stands at the receive from Type.
C3_ReturnsInReadOrder ==
  /\ ClosedBeforeValue(setCh) ~> (pc = "done")
  /\ (ClosedBeforeValue(typeCh) /\ pc = "readType") ~> (pc = "done")

\* Process returned on the closed Type while In is open and holds a token
C3_Witness ==
  /\ ClosedBeforeValue(typeCh)
  /\ pc = "done"
  /\ Len(typeLog) = 1 /\ ~typeLog[1].ok
  /\ ~setCh.closed /\ ~inCh.closed /\ Len(inCh.buf) = 1

\* Process is in its streaming phase
Streaming == pc \in {"recv", "sendHit", "sendMiss"}

\* C4: Set and Type are each received from at most once, Set before Type; no
\* token is received from In before both delivered a value; in the streaming
\* phase no step receives from a configuration channel or changes the
\* configured pattern, matcher or label.
C4_ConfigReadOnce ==
  /\ [](/\ Len(setLog) <= 1
        /\ Len(typeLog) <= 1
        /\ Len(typeLog) = 1 => (Len(setLog) = 1 /\ setLog[1].ok)
        /\ (Len(received) > 0 \/ Streaming) => Configured)
  /\ [][Streaming =>
          /\ UNCHANGED <<pattern, matcher, follow, tokenType, setLog, typeLog>>
          /\ setCh'.buf = setCh.buf \/ Len(setCh'.buf) > Len(setCh.buf)
          /\ typeCh'.buf = typeCh.buf \/ Len(typeCh'.buf) > Len(typeCh.buf)]_vars

\* two tokens were streamed while a second value waits on Set and on Type
C4_Witness ==
  /\ Len(received) = 2
  /\ pc = "recv"
  /\ Len(setCh.buf) = 1 /\ Len(typeCh.buf) = 1
  /\ Len(setLog) = 1 /\ Len(typeLog) = 1

\* C5: a token sent on Miss equals, in file, position, value and type, the
\* token that was received on In.
C5_MissUnchanged == pc = "sendMiss" => tok = LastReceived

\* ------------------------------------------------------------ ScanChars

\* the Set and Type values Process was configured with, as they were sent
SetValue == setLog[1].v
TypeValue == typeLog[1].v

\* Process has classified a token and stands in its send
Classified == Configured /\ pc \in {"sendHit", "sendMiss"}

\* the set string is bracket-delimited
IsBracketed(set) == Len(set) > 0 /\ set[1] = LBracket /\ set[Len(set)] = RBracket

\* a literal set with its two-character escapes read as the control characters
RECURSIVE Unescape(_)
Unescape(set) ==
  IF Len(set) = 0 THEN <<>>
  ELSE IF Len(set) >= 2 /\ set[1] = Backslash /\ set[2] \in {Ord["t"], Ord["r"], Ord["n"]}
       THEN << CASE set[2] = Ord["t"] -> TAB
                 [] set[2] = Ord["r"] -> CR
                 [] set[2] = Ord["n"] -> LF >> \o Unescape(SubSeq(set, 3, Len(set)))
       ELSE <<set[1]>> \o Unescape(Tail(set))

\* v is the maximal prefix of B[p:] whose bytes satisfy Ok
IsMaximalPrefix(v, B, p, Ok(_)) ==
  /\ p + Len(v) <= Len(B)
  /\ \A i \in 1..Len(v) : v[i] = B[p + i] /\ Ok(v[i])
  /\ p + Len(v) = Len(B) \/ ~Ok(B[p + Len(v) + 1])

\* C6: for a literal set S, ScanChars sends on Hit the maximal prefix of B[p:]
\* made of characters of S other than the zero byte, with the configured label,
\* when that prefix is non-empty, and sends on Miss when it is empty.
C6_MaximalRun ==
  (kind = "ScanChars" /\ Classified /\ ~IsBracketed(SetValue)) =>
    LET S == Chars(Unescape(SetValue))
        InSet(b) == b \in S /\ b # NUL
        B == LastReceived.file
        p == LastReceived.pos
    IN IF IsMaximalPrefix(<<>>, B, p, InSet)
       THEN pc = "sendMiss"
       ELSE /\ pc = "sendHit"
            /\ Len(tok.value) > 0
            /\ IsMaximalPrefix(tok.value, B, p, InSet)
            /\ tok.type = TypeValue

\* a run of two characters taken from the middle of the buffer and ended by a
\* character outside the set
C6_Witness ==
  /\ kind = "ScanChars" /\ Classified /\ ~IsBracketed(SetValue)
  /\ pc = "sendHit"
  /\ LastReceived.pos = 1 /\ Len(LastReceived.file) = 3
  /\ Len(tok.value) = 2
  /\ LastReceived.value # <<>>

\* the set string is a bracket class that regexp.Compile rejects
FailsToCompile(set) == IsBracketed(set) /\ Compile(set).err

\* C10: configured with a bracket-delimited set that does not compile,
\* ScanChars does not abort and sends every token it receives on Miss.
C10_BadClassAlwaysMiss ==
  (kind = "ScanChars" /\ Len(setLog) = 1 /\ setLog[1].ok /\ FailsToCompile(SetValue)) =>
    /\ pc \notin {"panic", "sendHit"}
    /\ hitOut = <<>>
    /\ Len(missOut) = Len(received) - (IF Holding THEN 1 ELSE 0)

\* a token standing on a letter was sent on Miss by the degraded matcher
C10_Witness ==
  /\ kind = "ScanChars" /\ Configured /\ FailsToCompile(SetValue)
  /\ Len(missOut) = 1
  /\ missOut[1].pos < Len(data)
  /\ data[missOut[1].pos + 1] = Ord["a"]

\* ---------------------------------------------------------- ScanComment

WordLike(K) == \A i \in 1..Len(K) : IsWord(K[i])

\* a non-word, non-space symbol; the zero byte is the sentinel, not a symbol
IsSymbol(b) == ~IsWord(b) /\ ~IsSpace(b) /\ b # NUL

\* the character after the keyword rejects the match
Disqualifying(K, b) == IF WordLike(K) THEN IsWord(b) ELSE IsSymbol(b)

\* B[p : p + len(K)] exists and equals K without regard to case
MatchesAt(K, B, p) ==
  /\ p + Len(K) <= Len(B)
  /\ ToUpper(SubSeq(B, p + 1, p + Len(K))) = ToUpper(K)

\* nothing follows the keyword at p, or a character that is neither the
\* sentinel nor disqualifying
FollowedByAcceptable(K, B, p) ==
  \/ p + Len(K) = Len(B)
  \/ /\ p + Len(K) < Len(B)
     /\ B[p + Len(K) + 1] # NUL
     /\ ~Disqualifying(K, B[p + Len(K) + 1])

\* something follows the keyword at p, and it is disqualifying
FollowedByDisqualifying(K, B, p) ==
  /\ p + Len(K) < Len(B)
  /\ Disqualifying(K, B[p + Len(K) + 1])

\* ScanKeyword has classified a token under a non-empty keyword
KeywordClassified == kind = "ScanKeyword" /\ Classified /\ Len(SetValue) > 0

\* C7: where the keyword matches without regard to case and is followed by
\* nothing or by a character that is not disqualifying, ScanKeyword sends on
\* Hit with the upper-cased keyword as value and the configured label as type.
C7_KeywordHit ==
  (/\ KeywordClassified
   /\ MatchesAt(SetValue, LastReceived.file, LastReceived.pos)
   /\ FollowedByAcceptable(SetValue, LastReceived.file, LastReceived.pos)) =>
    /\ pc = "sendHit"
    /\ tok.value = ToUpper(SetValue)
    /\ tok.type = TypeValue

\* C8: where the keyword matches without regard to case and the character
\* after it is disqualifying, ScanKeyword sends on Miss.
C8_KeywordBoundaryMiss ==
  (/\ KeywordClassified
   /\ MatchesAt(SetValue, LastReceived.file, LastReceived.pos)
   /\ FollowedByDisqualifying(SetValue, LastReceived.file, LastReceived.pos)) =>
    pc = "sendMiss"

\* ------------------------------------------------- aborts and boundaries

\* Process holds a token it received under a non-empty pattern and label
HoldsConfigured ==
  /\ Configured /\ Len(SetValue) > 0 /\ Len(TypeValue) > 0
  /\ Len(received) > 0
  /\ pc \in {"sendHit", "sendMiss", "panic"}

\* C11: a matcher configured with a non-empty pattern and label sends every
\* token with 0 <= position <= len(buffer) on Hit or on Miss and never aborts.
C11_NeverPanics == HoldsConfigured => pc # "panic"

\* C12: when position + len(keyword) exceeds len(buffer), ScanKeyword sends
\* the token on Miss exactly as it was received, and does not abort.
C12_ShortInputMiss ==
  (/\ kind = "ScanKeyword" /\ HoldsConfigured
   /\ LastReceived.pos + Len(SetValue) > Len(LastReceived.file)) =>
    /\ pc = "sendMiss"
    /\ tok = LastReceived

\* a two-byte keyword met one byte before the end of a buffer of three, on a
\* token that arrived with a value
C12_Witness ==
  /\ kind = "ScanKeyword" /\ HoldsConfigured
  /\ Len(SetValue) = 2
  /\ LastReceived.pos = 2 /\ Len(LastReceived.file) = 3
  /\ LastReceived.value # <<>>
  /\ pc = "sendMiss"

\* C17: ScanKeyword takes its keyword for word-like only when every character
\* of it is a word character, and for operator-like otherwise.
C17_WordLikeOnlyIfAllWord ==
  (kind = "ScanKeyword" /\ Configured /\ Len(SetValue) > 0) =>
    (follow = "ident" <=> WordLike(SetValue))

\* C18: when the keyword matches and the next byte is the zero sentinel,
\* ScanKeyword sends on Hit, as at the end of the buffer.
C18_SentinelIsEndOfInput ==
  (/\ KeywordClassified
   /\ MatchesAt(SetValue, LastReceived.file, LastReceived.pos)
   /\ LastReceived.pos + Len(SetValue) < Len(LastReceived.file)
   /\ LastReceived.file[LastReceived.pos + Len(SetValue) + 1] = NUL) =>
    pc = "sendHit"

\* C20: for a literal set, ScanChars accepts exactly the characters of the set
\* string with each backslash-t, backslash-r, backslash-n read as tab, carriage
\* return and line feed: a token standing on an accepted byte other than the
\* zero byte is sent on Hit, any other on Miss.
C20_EscapesExpanded ==
  (kind = "ScanChars" /\ Len(setLog) = 1 /\ setLog[1].ok
     /\ Len(SetValue) > 0 /\ ~IsBracketed(SetValue)) =>
    LET S == Chars(Unescape(SetValue))
    IN /\ matcher = S
       /\ Classified =>
            LET B == LastReceived.file
                p == LastReceived.pos
            IN pc = "sendHit" <=> (p < Len(B) /\ B[p + 1] \in S \ {NUL})

\* the set space, backslash, t on two spaces followed by a letter: Hit with
\* the two spaces
C20_Witness ==
  /\ kind = "ScanChars" /\ Classified
  /\ SetValue = <<Ord[" "], Backslash, Ord["t"]>>
  /\ LastReceived.file = <<Ord[" "], Ord[" "], Ord["a"]>>
  /\ LastReceived.pos = 0
  /\ pc = "sendHit"
  /\ tok.value = <<Ord[" "], Ord[" "]>>
  /\ tok.type = TypeValue

\* ------------------------------------------------------ end of the stream

RECURSIVE SentOn(_, _)
SentOn(log, out) ==
  IF Len(log) = 0 THEN <<>>
  ELSE IF Head(log).out = out
       THEN <<Head(log).tok>> \o SentOn(Tail(log), out)
       ELSE SentOn(Tail(log), out)

\* the same token: the same place of the same buffer
SameToken(t, u) == t.file = u.file /\ t.pos = u.pos

\* C14: the i-th send, on Hit or on Miss, carries the i-th token received, so
\* the sends taken together are the receives in arrival order, less the one
\* token Process holds; what arrived on Hit and what arrived on Miss are the
\* sends to that output in the order they were made, hence subsequences of the
\* receives in the same relative order.
C14_SendsInArrivalOrder ==
  /\ Len(sendLog) <= Len(received)
  /\ Len(received) <= Len(sendLog) + 1
  /\ \A i \in 1..Len(sendLog) : SameToken(sendLog[i].tok, received[i])
  /\ hitOut = SentOn(sendLog, "Hit")
  /\ missOut = SentOn(sendLog, "Miss")

\* two tokens at different positions were received and sent on, the first on
\* Hit and the second on Miss
C14_Witness ==
  /\ Len(received) = 2
  /\ received[1].pos # received[2].pos
  /\ Len(sendLog) = 2
  /\ sendLog[1].out = "Hit"
  /\ sendLog[2].out = "Miss"
  /\ Len(hitOut) = 1
  /\ Len(missOut) = 1

\* ---------------------------------------------------------------- frame

\* C19: the source buffer stays what it was at creation; every token Process
\* holds or has sent refers to that buffer at the position it arrived with, so
\* a token sent on Hit differs from the token received in value and type only.
C19_BufferAndPositionKept ==
  /\ [][data' = data]_vars
  /\ [](\A i \in 1..Len(received) : received[i].file = data)
  /\ [](Holding => (tok.file = data /\ tok.pos = LastReceived.pos))
  /\ [](\A i \in 1..Len(sendLog) :
          /\ i <= Len(received)
          /\ sendLog[i].tok.file = data
          /\ sendLog[i].tok.pos = received[i].pos
          /\ sendLog[i].out = "Hit" =>
               sendLog[i].tok =
                 [received[i] EXCEPT !.value = sendLog[i].tok.value,
                                     !.type = sendLog[i].tok.type])

\* a token past the start of the buffer was sent on Hit with a non-empty value
\* and a new type
C19_Witness ==
  /\ Len(sendLog) > 0
  /\ sendLog[1].out = "Hit"
  /\ received[1].pos > 0
  /\ Len(sendLog[1].tok.value) > 0
  /\ sendLog[1].tok.type # received[1].type
  /\ sendLog[1].tok.value # received[1].value

\* ------------------------------------------------------------ determinism

\* what became of each received token so far: the sends, then the token
\* Process holds with the output it stands to send on (or its abort)
Outcomes ==
  sendLog \o
    (IF Holding
     THEN <<[out |-> CASE pc = "sendHit" -> "Hit"
                       [] pc = "sendMiss" -> "Miss"
                       [] pc = "panic" -> "panic",
             tok |-> tok]>>
     ELSE <<>>)

PlacesOf(n) ==
  UNION {{<<"link", i, k>> :
            k \in {m \in 1..Len(link[i].buf) : link[i].buf[m].id = n}} :
         i \in 1..Len(link)}
  \cup {<<"stage", i, 0>> :
          i \in {j \in 1..Len(stage) :
                   stage[j].pc \in {"sendHit", "sendMiss"} /\ stage[j].tok.id = n}}
  \cup UNION {{<<"hit", i, k>> :
                 k \in {m \in 1..Len(sink.hit[i]) : sink.hit[i][m].id = n}} :
              i \in 1..Len(stage)}
  \cup {<<"miss", 0, k>> : k \in {m \in 1..Len(sink.miss) : sink.miss[m].id = n}}

\* the token as it entered the cascade
AsEntered(t) == [t EXCEPT !.value = <<>>, !.type = ""]

\* C16: in a cascade every token entered is at every state in exactly one
\* place, never duplicated and never lost; a token that left on the Hit of a
\* matcher was matched by that matcher and by none before it in the chain; a
\* token that left on the Miss of the last matcher has empty value and type.
C16_CascadeExactlyOnce ==
  /\ \A n \in 1..link[1].sent : Cardinality(PlacesOf(n)) = 1
  /\ \A i \in 1..Len(stage) : \A k \in 1..Len(sink.hit[i]) :
       /\ StageClassify(stage[i], AsEntered(sink.hit[i][k])).out = "Hit"
       /\ \A j \in 1..(i - 1) :
            StageClassify(stage[j], AsEntered(sink.hit[i][k])).out # "Hit"
  /\ \A k \in 1..Len(sink.miss) :
       /\ sink.miss[k].value = <<>>
       /\ sink.miss[k].type = ""

====
